---------------------------- MODULE Spec2Model ----------------------------
(***************************************************************************)
(* State-machine model of src/skill_ranker.py (UNO ranking):               *)
(*   - the two persisted files (ratings.json, ratings_history.json) in     *)
(*     both backends, the remote GitHub repository and the local disk;     *)
(*   - the per-session state st.session_state.ratings / .history;          *)
(*   - load_ratings, load_history, save_ratings and the two mutating page  *)
(*     handlers "Add New Player" and "Record Match Results".               *)
(*                                                                         *)
(* save_ratings is modelled call by call (one action per remote or local   *)
(* I/O call), the position of each session being pc[s]; every I/O call     *)
(* may succeed or raise.                                                   *)
(*                                                                         *)
(* A file is an option value: <<>> when the file does not exist, <<c>>     *)
(* when it exists with content c.  The revision identifier (contents.sha)  *)
(* of a remote file is the git blob hash of its content, so it is          *)
(* modelled by the content itself: update_file is accepted exactly when    *)
(* the file still has the content that get_contents returned.              *)
(*                                                                         *)
(* Ratings are kept in units of 1/300 of a rating point, so that the       *)
(* TrueSkill default (mu = 25, sigma = 25/3) is the integer pair           *)
(* (7500, 2500) and the second decimal that get_ratings_df rounds to is    *)
(* three units.                                                            *)
(***************************************************************************)
EXTENDS Integers, Sequences, FiniteSets, TLC

\* ------------------------------------------------------------- bounds ---

\* Accepted mutating operations (add player / record match) in one behaviour.
MaxOps == 2

\* Largest "Number of players in match" offered to the model.
MaxMatchLen == 3

\* -------------------------------------------------------- constants -----

\* trueskill defaults of env = trueskill.TrueSkill(...), in units of 1/300.
Mu0 == 7500
Sigma0 == 2500

\* The names of load_ratings' bootstrap mapping.
Seeds == {"Bav", "Sam", "Riz", "Emily"}

\* Values typed into st.text_input("New Player Name"): empty, blank,
\* an existing name and a fresh one.
NameInputs == {"", " ", "Bav", "Zed"}

\* Players the model selects in the match select boxes.
MatchPool == {"Bav", "Sam"}

\* Browser sessions.  Spec runs the sessions of MainSessions.
AllSessions == {"s1", "s2"}
MainSessions == {"s1"}

VARIABLES
    remoteRatings,   \* ratings.json in the GitHub repository (option value)
    remoteHistory,   \* ratings_history.json in the GitHub repository
    localRatings,    \* ratings.json on the local disk
    localHistory,    \* ratings_history.json on the local disk
    clock,           \* datetime.now(), one tick per accepted operation
    github_repo,     \* [session -> BOOLEAN]  github_repo of the current run
    ratings,         \* [session -> st.session_state.ratings]
    history,         \* [session -> st.session_state.history]
    pc,              \* [session -> position in the script]
    contents,        \* [session -> result of the last get_contents]
    loaded,          \* [session -> local variable history of save_ratings]
    message,         \* [session -> what the run showed: st.success, st.error]
    remote_ok,       \* [session -> whether the last remote call returned]
    op,              \* [session -> the operation of the current run]
    added,           \* names whose add_player was reported as done
    rankings_df      \* the table of the Rankings page, <<>> before it is built

vars == <<remoteRatings, remoteHistory, localRatings, localHistory, clock,
          github_repo, ratings, history, pc, contents, loaded, message,
          remote_ok, op, added, rankings_df>>

files == <<remoteRatings, remoteHistory, localRatings, localHistory>>

\* ------------------------------------------------------ pure helpers ----

Absent == <<>>

File(c) == <<c>>

Exists(f) == Len(f) = 1

\* env.Rating(): the default rating.
env_Rating == [mu |-> Mu0, sigma |-> Sigma0]

\* The fixed mapping load_ratings returns when no file is available.
Bootstrap == [n \in Seeds |-> env_Rating]

\* ratings_dict of save_ratings and the Rating(mu=, sigma=) rebuild of
\* load_ratings: float() and json keep both numbers as they are.
ratings_dict(r) == [n \in DOMAIN r |-> [mu |-> r[n].mu, sigma |-> r[n].sigma]]

\* Whether a remote read returns: the repository object exists, the call
\* goes through and the file is there.
get_contents_ok(gh, net, file) == gh /\ net /\ Exists(file)

\* load_ratings with the two sources tried in the wrong order.
load_ratings_local_first(gh, net, remote, local) ==
    IF Exists(local) THEN ratings_dict(local[1])
    ELSE IF get_contents_ok(gh, net, remote) THEN ratings_dict(remote[1])
    ELSE Bootstrap

\* load_ratings(), given github_repo, the outcome of the remote call and
\* the two files.
load_ratings(gh, net, remote, local) ==
    IF get_contents_ok(gh, net, remote) THEN ratings_dict(remote[1])
    ELSE IF Exists(local) THEN ratings_dict(local[1])
    ELSE Bootstrap

\* load_history(), likewise.
load_history(gh, net, remote, local) ==
    IF get_contents_ok(gh, net, remote) THEN remote[1]
    ELSE IF Exists(local) THEN local[1]
    ELSE <<>>

\* history_entry of save_ratings.
history_entry(ts, r) == [timestamp |-> ts, ratings |-> ratings_dict(r)]

\* env.rate(team_ratings, ranks) for one-player teams ranked 0..N-1 in list
\* order.  The trueskill library is outside the repository; its update is
\* abstracted to: the mean moves up for the better half of the ranks and
\* down for the worse half, and every sigma shrinks, in steps of a third
\* of a point.
rate(team_ratings) ==
    LET N == Len(team_ratings)
    IN  [i \in 1..N |->
            [mu    |-> team_ratings[i].mu + 100 * (N + 1 - 2 * i),
             sigma |-> team_ratings[i].sigma - 100]]

\* The replacement loop reading updated_ratings[0] for every participant.
update_loop_first_rank(r, match_players, updated_ratings, i) ==
    [n \in DOMAIN r |->
        IF \E k \in i..Len(match_players) : match_players[k] = n
        THEN updated_ratings[1] ELSE r[n]]

\* The loop "for i, player in enumerate(match_players):
\*               st.session_state.ratings[player] = updated_ratings[i][0]".
RECURSIVE update_loop(_, _, _, _)
update_loop(r, match_players, updated_ratings, i) ==
    IF i > Len(match_players) THEN r
    ELSE update_loop([r EXCEPT ![match_players[i]] = updated_ratings[i]],
                     match_players, updated_ratings, i + 1)

\* A duplicate check that compares neighbours only.
no_duplicates_adjacent(match_players) ==
    \A i \in 1..(Len(match_players) - 1) :
        match_players[i] # match_players[i + 1]

\* len(match_players) == len(set(match_players))
no_duplicates(match_players) ==
    Len(match_players) =
        Cardinality({match_players[i] : i \in 1..Len(match_players)})

\* The check of the Add Player handler:
\* new_player and new_player not in st.session_state.ratings
add_player_ok(new_player, r) ==
    new_player # "" /\ new_player \notin DOMAIN r

\* The selections the match form can hold: num_players between 2 and
\* len(players), each select box holding one of the players.
MatchInputs(r) ==
    LET pool == MatchPool \cap DOMAIN r
        top  == IF Cardinality(DOMAIN r) < MaxMatchLen
                THEN Cardinality(DOMAIN r) ELSE MaxMatchLen
    IN  UNION {[1..n -> pool] : n \in 2..top}

NoOp == [kind |-> "none", name |-> "", players |-> <<>>, accepted |-> FALSE,
         pre |-> <<>>]

\* The state an operation starts from, kept for the properties.
Snapshot(s) ==
    [ratings |-> ratings[s], history |-> history[s],
     remoteRatings |-> remoteRatings, remoteHistory |-> remoteHistory,
     localRatings |-> localRatings, localHistory |-> localHistory]

\* round(x, 2) of a value in units of 1/300, as a number of hundredths:
\* the nearest multiple of three units (x / 3 is never halfway).
round_2(x) == (2 * x + 3) \div 6

\* conservative_rating = rating.mu - 3 * rating.sigma
conservative_rating(rating) == rating.mu - 3 * rating.sigma

\* The list "data" of get_ratings_df, one row per player.
data(r) ==
    {[Player |-> n,
      Rating |-> round_2(r[n].mu),
      Uncertainty |-> round_2(r[n].sigma),
      ConservativeRating |-> round_2(conservative_rating(r[n]))] :
        n \in DOMAIN r}

\* df.sort_values("Conservative Rating", ascending=False): the rows in an
\* order of non-increasing "Conservative Rating".  The default sort kind
\* (quicksort) does not fix the order of rows with equal keys, so every
\* such order is a possible result.
sort_values(rows) ==
    {df \in [1..Cardinality(rows) -> rows] :
        /\ \A i \in DOMAIN df, j \in DOMAIN df : i # j => df[i] # df[j]
        /\ \A i \in DOMAIN df, j \in DOMAIN df :
              i < j => df[i].ConservativeRating >= df[j].ConservativeRating}

\* get_ratings_df(ratings): the tables it can return.
get_ratings_df(r) == sort_values(data(r))

\* First position of save_ratings: "if github_repo:".
SaveEntry(gh) == IF gh THEN "ratings_get" ELSE "local_ratings"

\* ------------------------------------------------------------- Init -----

Init ==
    /\ remoteRatings = Absent
    /\ remoteHistory = Absent
    /\ localRatings = Absent
    /\ localHistory = Absent
    /\ clock = 0
    /\ github_repo = [s \in AllSessions |-> FALSE]
    /\ ratings = [s \in AllSessions |-> <<>>]
    /\ history = [s \in AllSessions |-> <<>>]
    /\ pc = [s \in AllSessions |-> "new"]
    /\ contents = [s \in AllSessions |-> Absent]
    /\ loaded = [s \in AllSessions |-> <<>>]
    /\ message = [s \in AllSessions |-> "none"]
    /\ remote_ok = [s \in AllSessions |-> FALSE]
    /\ op = [s \in AllSessions |-> NoOp]
    /\ added = {}
    /\ rankings_df = <<>>

\* ------------------------------------------------- session start --------

\* A first script run of a session: setup_github_integration() yields a
\* repository object or None, then
\* "if 'ratings' not in st.session_state: ... = load_ratings()".
StartSession(s) ==
    /\ pc[s] = "new"
    /\ \E gh \in BOOLEAN, net \in BOOLEAN :
          /\ github_repo' = [github_repo EXCEPT ![s] = gh]
          /\ ratings' = [ratings EXCEPT
                ![s] = load_ratings(gh, net, remoteRatings, localRatings)]
          /\ remote_ok' = [remote_ok EXCEPT
                ![s] = get_contents_ok(gh, net, remoteRatings)]
    /\ op' = [op EXCEPT ![s] = [NoOp EXCEPT !.kind = "start",
                                            !.pre = Snapshot(s)]]
    /\ pc' = [pc EXCEPT ![s] = "init_history"]
    /\ message' = [message EXCEPT ![s] = "none"]
    /\ UNCHANGED <<files, clock, history, contents, loaded, added, rankings_df>>

\* "if 'history' not in st.session_state: ... = load_history()".
InitHistory(s) ==
    /\ pc[s] = "init_history"
    /\ \E net \in BOOLEAN :
          /\ history' = [history EXCEPT
                ![s] = load_history(github_repo[s], net,
                                    remoteHistory, localHistory)]
          /\ remote_ok' = [remote_ok EXCEPT
                ![s] = get_contents_ok(github_repo[s], net, remoteHistory)]
    /\ pc' = [pc EXCEPT ![s] = "done"]
    /\ UNCHANGED <<files, clock, github_repo, ratings, contents, loaded,
                   message, op, added, rankings_df>>

\* The browser session ends and a new one begins: st.session_state is
\* empty again.
NewSession(s) ==
    /\ pc[s] = "idle"
    /\ pc' = [pc EXCEPT ![s] = "new"]
    /\ ratings' = [ratings EXCEPT ![s] = <<>>]
    /\ history' = [history EXCEPT ![s] = <<>>]
    /\ UNCHANGED <<files, clock, github_repo, contents, loaded, message,
                   remote_ok, op, added, rankings_df>>

\* The script run has reached its end (st.rerun() or the last line): the
\* module globals and the locals of the run are gone, the page waits for
\* the next interaction.
EndRun(s) ==
    /\ pc[s] = "done"
    /\ pc' = [pc EXCEPT ![s] = "idle"]
    /\ github_repo' = [github_repo EXCEPT ![s] = FALSE]
    /\ contents' = [contents EXCEPT ![s] = Absent]
    /\ loaded' = [loaded EXCEPT ![s] = <<>>]
    /\ remote_ok' = [remote_ok EXCEPT ![s] = FALSE]
    /\ message' = [message EXCEPT ![s] = "none"]
    /\ op' = [op EXCEPT ![s] = NoOp]
    /\ UNCHANGED <<files, clock, ratings, history, added, rankings_df>>

\* ------------------------------------------------------ handlers --------

\* The "Add Player" button, up to the call of save_ratings.
AddPlayer(s, new_player) ==
    /\ pc[s] = "idle"
    /\ add_player_ok(new_player, ratings[s]) => clock < MaxOps
    /\ IF add_player_ok(new_player, ratings[s])
       THEN \E gh \in BOOLEAN :
               /\ github_repo' = [github_repo EXCEPT ![s] = gh]
               /\ ratings' = [ratings EXCEPT
                     ![s] = [n \in DOMAIN ratings[s] \cup {new_player} |->
                                IF n = new_player THEN env_Rating
                                ELSE ratings[s][n]]]
               /\ clock' = clock + 1
               /\ pc' = [pc EXCEPT ![s] = SaveEntry(gh)]
       ELSE /\ pc' = [pc EXCEPT ![s] = "done"]
            /\ UNCHANGED <<github_repo, ratings, clock>>
    /\ op' = [op EXCEPT ![s] =
                [kind |-> "add", name |-> new_player, players |-> <<>>,
                 accepted |-> add_player_ok(new_player, ratings[s]),
                 pre |-> Snapshot(s)]]
    /\ message' = [message EXCEPT ![s] = "none"]
    /\ UNCHANGED <<files, history, contents, loaded, remote_ok, added,
                   rankings_df>>

\* The "Record Match" button, up to the call of save_ratings.
RecordMatch(s, match_players) ==
    /\ pc[s] = "idle"
    /\ no_duplicates(match_players) => clock < MaxOps
    /\ IF no_duplicates(match_players)
       THEN \E gh \in BOOLEAN :
               LET team_ratings ==
                       [i \in 1..Len(match_players) |->
                           ratings[s][match_players[i]]]
                   updated_ratings == rate(team_ratings)
               IN  /\ github_repo' = [github_repo EXCEPT ![s] = gh]
                   /\ ratings' = [ratings EXCEPT
                         ![s] = update_loop(ratings[s], match_players,
                                            updated_ratings, 1)]
                   /\ clock' = clock + 1
                   /\ pc' = [pc EXCEPT ![s] = SaveEntry(gh)]
                   /\ message' = [message EXCEPT ![s] = "none"]
       ELSE /\ message' = [message EXCEPT ![s] = "error"]
            /\ pc' = [pc EXCEPT ![s] = "done"]
            /\ UNCHANGED <<github_repo, ratings, clock>>
    /\ op' = [op EXCEPT ![s] =
                [kind |-> "match", name |-> "", players |-> match_players,
                 accepted |-> no_duplicates(match_players),
                 pre |-> Snapshot(s)]]
    /\ UNCHANGED <<files, history, contents, loaded, remote_ok, added,
                   rankings_df>>

\* ---------------------------------------------------- save_ratings ------
\* Every position below is reached only inside save_ratings(ratings) with
\* ratings = st.session_state.ratings, which the session does not change
\* until save_ratings has returned or raised.

\* contents = github_repo.get_contents("ratings.json")
SaveRatingsGet(s) ==
    /\ pc[s] = "ratings_get"
    /\ \E net \in BOOLEAN :
          IF get_contents_ok(TRUE, net, remoteRatings)
          THEN /\ contents' = [contents EXCEPT ![s] = remoteRatings]
               /\ remote_ok' = [remote_ok EXCEPT ![s] = TRUE]
               /\ pc' = [pc EXCEPT ![s] = "ratings_update"]
          ELSE /\ remote_ok' = [remote_ok EXCEPT ![s] = FALSE]
               /\ pc' = [pc EXCEPT ![s] = "ratings_create"]
               /\ UNCHANGED contents
    /\ UNCHANGED <<files, clock, github_repo, ratings, history, loaded,
                   message, op, added, rankings_df>>

\* The ratings update as a delta: the session's entries laid over the
\* mapping the repository holds.
SaveRatingsUpdate_merge(s) ==
    /\ pc[s] = "ratings_update"
    /\ \E net \in BOOLEAN :
          IF net /\ remoteRatings = contents[s]
          THEN /\ remoteRatings' =
                     File([n \in DOMAIN remoteRatings[1] \cup DOMAIN ratings[s]
                             |-> IF n \in DOMAIN ratings[s]
                                 THEN ratings_dict(ratings[s])[n]
                                 ELSE remoteRatings[1][n]])
               /\ remote_ok' = [remote_ok EXCEPT ![s] = TRUE]
               /\ pc' = [pc EXCEPT ![s] = "history_get"]
          ELSE /\ remote_ok' = [remote_ok EXCEPT ![s] = FALSE]
               /\ pc' = [pc EXCEPT ![s] = "ratings_create"]
               /\ UNCHANGED remoteRatings
    /\ UNCHANGED <<remoteHistory, localRatings, localHistory, clock,
                   github_repo, ratings, history, contents, loaded, message,
                   op, added, rankings_df>>

\* github_repo.update_file(contents.path, ..., contents.sha): accepted when
\* the call goes through and the file still has the revision that was read.
SaveRatingsUpdate(s) ==
    /\ pc[s] = "ratings_update"
    /\ \E net \in BOOLEAN :
          IF net /\ remoteRatings = contents[s]
          THEN /\ remoteRatings' = File(ratings_dict(ratings[s]))
               /\ remote_ok' = [remote_ok EXCEPT ![s] = TRUE]
               /\ pc' = [pc EXCEPT ![s] = "history_get"]
          ELSE /\ remote_ok' = [remote_ok EXCEPT ![s] = FALSE]
               /\ pc' = [pc EXCEPT ![s] = "ratings_create"]
               /\ UNCHANGED remoteRatings
    /\ UNCHANGED <<remoteHistory, localRatings, localHistory, clock,
                   github_repo, ratings, history, contents, loaded, message,
                   op, added, rankings_df>>

\* "except: github_repo.create_file('ratings.json', ...)": the repository
\* accepts a create (a write without revision) only for a path that does
\* not exist; a failure leaves the inner handler and is caught at line 159.
SaveRatingsCreate(s) ==
    /\ pc[s] = "ratings_create"
    /\ \E net \in BOOLEAN :
          IF net /\ ~Exists(remoteRatings)
          THEN /\ remoteRatings' = File(ratings_dict(ratings[s]))
               /\ remote_ok' = [remote_ok EXCEPT ![s] = TRUE]
               /\ pc' = [pc EXCEPT ![s] = "history_get"]
          ELSE /\ remote_ok' = [remote_ok EXCEPT ![s] = FALSE]
               /\ pc' = [pc EXCEPT ![s] = "local_ratings"]
               /\ UNCHANGED remoteRatings
    /\ UNCHANGED <<remoteHistory, localRatings, localHistory, clock,
                   github_repo, ratings, history, contents, loaded, message,
                   op, added, rankings_df>>

\* contents = github_repo.get_contents("ratings_history.json");
\* history = json.loads(contents.decoded_content)
SaveHistoryGet(s) ==
    /\ pc[s] = "history_get"
    /\ \E net \in BOOLEAN :
          IF get_contents_ok(TRUE, net, remoteHistory)
          THEN /\ contents' = [contents EXCEPT ![s] = remoteHistory]
               /\ remote_ok' = [remote_ok EXCEPT ![s] = TRUE]
               /\ pc' = [pc EXCEPT ![s] = "history_update"]
          ELSE /\ remote_ok' = [remote_ok EXCEPT ![s] = FALSE]
               /\ pc' = [pc EXCEPT ![s] = "history_create"]
               /\ UNCHANGED contents
    /\ UNCHANGED <<files, clock, github_repo, ratings, history, loaded,
                   message, op, added, rankings_df>>

\* history.append(history_entry); github_repo.update_file(..., contents.sha);
\* on success save_ratings returns True.
SaveHistoryUpdate(s) ==
    /\ pc[s] = "history_update"
    /\ \E net \in BOOLEAN :
          IF net /\ remoteHistory = contents[s]
          THEN /\ remoteHistory' =
                     File(Append(contents[s][1],
                                 history_entry(clock, ratings[s])))
               /\ remote_ok' = [remote_ok EXCEPT ![s] = TRUE]
               /\ pc' = [pc EXCEPT ![s] = "reload"]
          ELSE /\ remote_ok' = [remote_ok EXCEPT ![s] = FALSE]
               /\ pc' = [pc EXCEPT ![s] = "history_create"]
               /\ UNCHANGED remoteHistory
    /\ UNCHANGED <<remoteRatings, localRatings, localHistory, clock,
                   github_repo, ratings, history, contents, loaded, message,
                   op, added, rankings_df>>

\* "except: github_repo.create_file('ratings_history.json', ...,
\* json.dumps([history_entry]))"; on success save_ratings returns True, a
\* failure is caught at line 159.
SaveHistoryCreate(s) ==
    /\ pc[s] = "history_create"
    /\ \E net \in BOOLEAN :
          IF net /\ ~Exists(remoteHistory)
          THEN /\ remoteHistory' =
                     File(<<history_entry(clock, ratings[s])>>)
               /\ remote_ok' = [remote_ok EXCEPT ![s] = TRUE]
               /\ pc' = [pc EXCEPT ![s] = "reload"]
          ELSE /\ remote_ok' = [remote_ok EXCEPT ![s] = FALSE]
               /\ pc' = [pc EXCEPT ![s] = "local_ratings"]
               /\ UNCHANGED remoteHistory
    /\ UNCHANGED <<remoteRatings, localRatings, localHistory, clock,
                   github_repo, ratings, history, contents, loaded, message,
                   op, added, rankings_df>>

\* The fallback leaving the local ratings file alone when the repository
\* already holds the new ratings.
SaveLocalRatings_unless_remote(s) ==
    /\ pc[s] = "local_ratings"
    /\ \E io \in BOOLEAN :
          IF io
          THEN /\ localRatings' =
                     IF github_repo[s]
                        /\ remoteRatings = File(ratings_dict(ratings[s]))
                     THEN localRatings
                     ELSE File(ratings_dict(ratings[s]))
               /\ pc' = [pc EXCEPT ![s] = "local_load"]
               /\ UNCHANGED message
          ELSE /\ pc' = [pc EXCEPT ![s] = "done"]
               /\ message' = [message EXCEPT ![s] = "exception"]
               /\ UNCHANGED localRatings
    /\ UNCHANGED <<remoteRatings, remoteHistory, localHistory, clock,
                   github_repo, ratings, history, contents, loaded,
                   remote_ok, op, added, rankings_df>>

\* with open("ratings.json", "w") as f: json.dump(ratings_dict, f).
\* An OSError of open() leaves the file as it was and leaves save_ratings
\* and the handler: the run ends with the exception shown.
SaveLocalRatings(s) ==
    /\ pc[s] = "local_ratings"
    /\ \E io \in BOOLEAN :
          IF io
          THEN /\ localRatings' = File(ratings_dict(ratings[s]))
               /\ pc' = [pc EXCEPT ![s] = "local_load"]
               /\ UNCHANGED message
          ELSE /\ pc' = [pc EXCEPT ![s] = "done"]
               /\ message' = [message EXCEPT ![s] = "exception"]
               /\ UNCHANGED localRatings
    /\ UNCHANGED <<remoteRatings, remoteHistory, localHistory, clock,
                   github_repo, ratings, history, contents, loaded,
                   remote_ok, op, added, rankings_df>>

\* history = load_history()
SaveLocalLoad(s) ==
    /\ pc[s] = "local_load"
    /\ \E net \in BOOLEAN :
          /\ loaded' = [loaded EXCEPT
                ![s] = load_history(github_repo[s], net,
                                    remoteHistory, localHistory)]
          /\ remote_ok' = [remote_ok EXCEPT
                ![s] = get_contents_ok(github_repo[s], net, remoteHistory)]
    /\ pc' = [pc EXCEPT ![s] = "local_history"]
    /\ UNCHANGED <<files, clock, github_repo, ratings, history, contents,
                   message, op, added, rankings_df>>

\* The local history write with its OSError swallowed: save_ratings
\* returns True whether or not the file was written.
SaveLocalHistory_swallow(s) ==
    /\ pc[s] = "local_history"
    /\ \E io \in BOOLEAN :
          IF io
          THEN localHistory' =
                  File(Append(loaded[s], history_entry(clock, ratings[s])))
          ELSE UNCHANGED localHistory
    /\ pc' = [pc EXCEPT ![s] = "reload"]
    /\ UNCHANGED <<remoteRatings, remoteHistory, localRatings, clock,
                   github_repo, ratings, history, contents, loaded, message,
                   remote_ok, op, added, rankings_df>>

\* The local history write as a true append: the entry is added to what the
\* file holds at the time of the write.
SaveLocalHistory_append(s) ==
    /\ pc[s] = "local_history"
    /\ \E io \in BOOLEAN :
          IF io
          THEN /\ localHistory' =
                     File(Append(IF Exists(localHistory) THEN localHistory[1]
                                 ELSE <<>>,
                                 history_entry(clock, ratings[s])))
               /\ pc' = [pc EXCEPT ![s] = "reload"]
               /\ UNCHANGED message
          ELSE /\ pc' = [pc EXCEPT ![s] = "done"]
               /\ message' = [message EXCEPT ![s] = "exception"]
               /\ UNCHANGED localHistory
    /\ UNCHANGED <<remoteRatings, remoteHistory, localRatings, clock,
                   github_repo, ratings, history, contents, loaded,
                   remote_ok, op, added, rankings_df>>

\* history.append(history_entry);
\* with open("ratings_history.json", "w") as f: json.dump(history, f);
\* return True
SaveLocalHistory(s) ==
    /\ pc[s] = "local_history"
    /\ \E io \in BOOLEAN :
          IF io
          THEN /\ localHistory' =
                     File(Append(loaded[s], history_entry(clock, ratings[s])))
               /\ pc' = [pc EXCEPT ![s] = "reload"]
               /\ UNCHANGED message
          ELSE /\ pc' = [pc EXCEPT ![s] = "done"]
               /\ message' = [message EXCEPT ![s] = "exception"]
               /\ UNCHANGED localHistory
    /\ UNCHANGED <<remoteRatings, remoteHistory, localRatings, clock,
                   github_repo, ratings, history, contents, loaded,
                   remote_ok, op, added, rankings_df>>

\* Back in the handler: st.session_state.history = load_history();
\* st.success(...); st.rerun().
Reload(s) ==
    /\ pc[s] = "reload"
    /\ \E net \in BOOLEAN :
          /\ history' = [history EXCEPT
                ![s] = load_history(github_repo[s], net,
                                    remoteHistory, localHistory)]
          /\ remote_ok' = [remote_ok EXCEPT
                ![s] = get_contents_ok(github_repo[s], net, remoteHistory)]
    /\ message' = [message EXCEPT ![s] = "success"]
    /\ pc' = [pc EXCEPT ![s] = "done"]
    /\ added' = IF op[s].kind = "add" THEN added \cup {op[s].name} ELSE added
    /\ UNCHANGED <<files, clock, github_repo, ratings, contents, loaded, op,
                   rankings_df>>

\* ------------------------------------------------------------ Next ------

\* One step of a script run of session s.
Run(s) ==
    \/ StartSession(s)
    \/ InitHistory(s)
    \/ EndRun(s)
    \/ \E new_player \in NameInputs : AddPlayer(s, new_player)
    \/ \E match_players \in MatchInputs(ratings[s]) :
          RecordMatch(s, match_players)
    \/ SaveRatingsGet(s)
    \/ SaveRatingsUpdate(s)
    \/ SaveRatingsCreate(s)
    \/ SaveHistoryGet(s)
    \/ SaveHistoryUpdate(s)
    \/ SaveHistoryCreate(s)
    \/ SaveLocalRatings(s)
    \/ SaveLocalLoad(s)
    \/ SaveLocalHistory(s)
    \/ Reload(s)

Step(s) == Run(s) \/ NewSession(s)

Next == \E s \in MainSessions : Step(s)

Spec == Init /\ [][Next]_vars

\* ---------------------------------------------------- Rankings page -----

\* Ratings a session's store can hold when the Rankings page is drawn:
\* means of 30.0, 30.0033.. and 31.0, sigmas of 1.0 and 5.0.
RankPlayers == {"Bav", "Sam", "Riz"}

RankMus == {9000, 9001, 9300}

RankSigmas == {300, 1500}

RankInputs ==
    [RankPlayers -> [mu : RankMus, sigma : RankSigmas]]

InitRank ==
    /\ remoteRatings = Absent
    /\ remoteHistory = Absent
    /\ localRatings = Absent
    /\ localHistory = Absent
    /\ clock = 0
    /\ github_repo = [s \in AllSessions |-> FALSE]
    /\ ratings \in [AllSessions -> RankInputs \cup {<<>>}]
    /\ \A s \in AllSessions : ratings[s] = <<>> <=> s \notin MainSessions
    /\ history = [s \in AllSessions |-> <<>>]
    /\ pc = [s \in AllSessions |->
                IF s \in MainSessions THEN "idle" ELSE "new"]
    /\ contents = [s \in AllSessions |-> Absent]
    /\ loaded = [s \in AllSessions |-> <<>>]
    /\ message = [s \in AllSessions |-> "none"]
    /\ remote_ok = [s \in AllSessions |-> FALSE]
    /\ op = [s \in AllSessions |-> NoOp]
    /\ added = {}
    /\ rankings_df = <<>>

\* page == "Rankings": rankings_df = get_ratings_df(st.session_state.ratings)
Rankings(s) ==
    /\ pc[s] = "idle"
    /\ rankings_df' \in get_ratings_df(ratings[s])
    /\ UNCHANGED <<files, clock, github_repo, ratings, history, pc, contents,
                   loaded, message, remote_ok, op, added>>

NextRank == \E s \in MainSessions : Rankings(s)

SpecRank == InitRank /\ [][NextRank]_vars

\* Two browser sessions open at the same time: Streamlit runs each
\* session's script in a thread of its own, so their I/O calls interleave.
\* Each session uses the Add Player form, with a name of its own.
ConcName == [s \in AllSessions |-> IF s = "s1" THEN "Zed" ELSE " "]

RunConc(s) ==
    \/ StartSession(s)
    \/ InitHistory(s)
    \/ EndRun(s)
    \/ AddPlayer(s, ConcName[s])
    \/ SaveRatingsGet(s)
    \/ SaveRatingsUpdate(s)
    \/ SaveRatingsCreate(s)
    \/ SaveHistoryGet(s)
    \/ SaveHistoryUpdate(s)
    \/ SaveHistoryCreate(s)
    \/ SaveLocalRatings(s)
    \/ SaveLocalLoad(s)
    \/ SaveLocalHistory(s)
    \/ Reload(s)

NextConc == \E s \in AllSessions : RunConc(s)

SpecConc == Init /\ [][NextConc]_vars


\* ------------------------------------------------------ properties ------

\* An accepted add-player or record-match whose run has ended.
Ended(s) ==
    /\ pc[s] = "done"
    /\ op[s].kind \in {"add", "match"}
    /\ op[s].accepted

\* An ended operation that was reported as done (st.success).
Committed(s) == Ended(s) /\ message[s] = "success"

Participants(s) == {op[s].players[i] : i \in 1..Len(op[s].players)}

IsPrefix(a, b) ==
    /\ Len(a) <= Len(b)
    /\ \A i \in 1..Len(a) : a[i] = b[i]

\* What load_history could return when the operation of s began.
ReadableBefore(s) ==
    {load_history(gh, net, op[s].pre.remoteHistory, op[s].pre.localHistory) :
        gh \in BOOLEAN, net \in BOOLEAN}

\* The entry the operation of s appends: its timestamp is the tick the
\* operation took.
IsOwnEntry(s, e) ==
    e.timestamp = clock /\ e.ratings = ratings_dict(ratings[s])

\* C1: after a record_match run has ended, whatever its remote and local
\* write steps did, a following load_ratings / load_history pair (both
\* under the same availability of the remote store) either both show the
\* match or both do not.
C1_MatchAtomic ==
    \A s \in AllSessions :
        (Ended(s) /\ op[s].kind = "match") =>
            \A gh \in BOOLEAN, net \in BOOLEAN :
                LET r == load_ratings(gh, net, remoteRatings, localRatings)
                    h == load_history(gh, net, remoteHistory, localHistory)
                IN  (\A n \in Participants(s) : r[n] = ratings[s][n])
                        <=> (\E i \in 1..Len(h) : h[i].timestamp = clock)

\* C2: the history a session holds after a committed add-player or
\* record-match is exactly one entry longer than a history that was
\* readable before the operation.
C2_HistoryGrowsByOne ==
    \A s \in AllSessions :
        Committed(s) =>
            \E h \in ReadableBefore(s) : Len(history[s]) = Len(h) + 1

\* C3: the history read after a committed operation extends a history
\* that was readable before it, and its timestamps never decrease.
C3_HistoryAppendOnly ==
    \A s \in AllSessions :
        Committed(s) =>
            /\ \E h \in ReadableBefore(s) : IsPrefix(h, history[s])
            /\ \A i \in 1..Len(history[s]), j \in 1..Len(history[s]) :
                  i <= j => history[s][i].timestamp <= history[s][j].timestamp

\* C4: after a record_match reported as successful, the history log
\* holds exactly one new entry, and its snapshot is the full rating mapping
\* the operation produced.  The log is read the way load_history reads it
\* when the remote store answers, before and after the operation.
C4_MatchEntrySnapshot ==
    \A s \in AllSessions :
        (Committed(s) /\ op[s].kind = "match") =>
            LET before == load_history(TRUE, TRUE, op[s].pre.remoteHistory,
                                       op[s].pre.localHistory)
                after  == load_history(TRUE, TRUE, remoteHistory,
                                       localHistory)
            IN  /\ Len(after) = Len(before) + 1
                /\ IsPrefix(before, after)
                /\ after[Len(after)].ratings = ratings_dict(ratings[s])

\* The operation of s has left the session's store, the session's history
\* and the four files as they were when the button was pressed.
Untouched(s) ==
    /\ ratings[s] = op[s].pre.ratings
    /\ history[s] = op[s].pre.history
    /\ remoteRatings = op[s].pre.remoteRatings
    /\ remoteHistory = op[s].pre.remoteHistory
    /\ localRatings = op[s].pre.localRatings
    /\ localHistory = op[s].pre.localHistory

HasRepeat(seq) ==
    \E i \in 1..Len(seq), j \in 1..Len(seq) : i # j /\ seq[i] = seq[j]

\* C5: add_player with a name already in the Rating Store ends with an
\* error shown to the caller and leaves the store, the files and the
\* history as they were.
C5_DuplicateAddFails ==
    \A s \in AllSessions :
        (pc[s] = "done" /\ op[s].kind = "add"
            /\ op[s].name \in DOMAIN op[s].pre.ratings) =>
                /\ message[s] = "error"
                /\ Untouched(s)

\* C6: add_player with an empty or blank name inserts no player, writes
\* nothing and appends no history entry.
C6_BlankAddRejected ==
    \A s \in AllSessions :
        (op[s].kind = "add" /\ op[s].name \in {"", " "}) =>
            /\ op[s].name \notin DOMAIN ratings[s]
            /\ Untouched(s)

\* C7: record_match with a participant list that repeats a name changes
\* nothing: the session's store, the persisted ratings (remote and local)
\* and the history (held, remote and local) stay as they were.
C7_RepeatedParticipantRejected ==
    \A s \in AllSessions :
        (op[s].kind = "match" /\ HasRepeat(op[s].players)) =>
            /\ Untouched(s)
            /\ pc[s] = "done"
            /\ message[s] = "error"

C7_Witness ==
    \E s \in AllSessions :
        /\ pc[s] = "done"
        /\ op[s].kind = "match"
        /\ op[s].players = <<"Bav", "Sam", "Bav">>
        /\ Exists(remoteHistory)
        /\ Exists(localHistory)
        /\ "Zed" \in DOMAIN ratings[s]

\* C8: an accepted record_match gives every participant the rating the
\* update computed for its rank, a rating different from the one it had,
\* keeps the rating of every other player and keeps the set of names.
C8_MatchFrame ==
    \A s \in AllSessions :
        (op[s].kind = "match" /\ op[s].accepted) =>
            LET before == op[s].pre.ratings
                names  == op[s].players
                prior  == [i \in 1..Len(names) |-> before[names[i]]]
            IN  /\ DOMAIN ratings[s] = DOMAIN before
                /\ \A n \in DOMAIN before \ Participants(s) :
                      ratings[s][n] = before[n]
                /\ \A i \in 1..Len(names) :
                      /\ ratings[s][names[i]] = rate(prior)[i]
                      /\ ratings[s][names[i]] # before[names[i]]

C8_Witness ==
    \E s \in AllSessions :
        /\ Committed(s)
        /\ op[s].kind = "match"
        /\ op[s].players = <<"Sam", "Bav">>
        /\ "Zed" \in DOMAIN ratings[s]
        /\ ratings[s]["Sam"].mu > ratings[s]["Bav"].mu

\* C9: a name whose add_player was reported as done is from then on in
\* the Rating Store that load_ratings builds for a session when the remote
\* store answers (the remote file, or the local file when the repository
\* holds none).
C9_PlayersNeverLost ==
    added \subseteq
        DOMAIN load_ratings(TRUE, TRUE, remoteRatings, localRatings)

\* C10: every read takes the remote file when the remote read returns,
\* else the local file when it exists, else the default (the four seed
\* players at the default rating for load_ratings, the empty list for
\* load_history); a remote read returns only with a repository object and
\* an existing remote file.
C10_ReadFallbackOrder ==
    \A s \in AllSessions :
        /\ pc[s] = "init_history" =>
              /\ remote_ok[s] => github_repo[s] /\ Exists(remoteRatings)
              /\ ratings[s] =
                    IF remote_ok[s] THEN remoteRatings[1]
                    ELSE IF Exists(localRatings) THEN localRatings[1]
                    ELSE [n \in {"Bav", "Sam", "Riz", "Emily"} |->
                             [mu |-> Mu0, sigma |-> Sigma0]]
        /\ (pc[s] = "done" /\ (op[s].kind = "start" \/ Committed(s))) =>
              /\ remote_ok[s] => github_repo[s] /\ Exists(remoteHistory)
              /\ history[s] =
                    IF remote_ok[s] THEN remoteHistory[1]
                    ELSE IF Exists(localHistory) THEN localHistory[1]
                    ELSE <<>>
        /\ pc[s] = "local_history" =>
              /\ remote_ok[s] => github_repo[s] /\ Exists(remoteHistory)
              /\ loaded[s] =
                    IF remote_ok[s] THEN remoteHistory[1]
                    ELSE IF Exists(localHistory) THEN localHistory[1]
                    ELSE <<>>

C10_Witness ==
    \E s \in AllSessions :
        /\ pc[s] = "init_history"
        /\ github_repo[s]
        /\ ~remote_ok[s]
        /\ Exists(remoteRatings)
        /\ Exists(localRatings)
        /\ remoteRatings # localRatings
        /\ ratings[s] = localRatings[1]

\* The history in file f (an option value) holds an entry stamped ts.
HasEntryAt(f, ts) ==
    Exists(f) /\ \E i \in 1..Len(f[1]) : f[1][i].timestamp = ts

\* save_ratings of s returned True although a remote step failed: the
\* repository object was there and the remote history did not get the
\* entry of this operation.
RemoteWriteFailed(s) ==
    /\ Committed(s)
    /\ github_repo[s]
    /\ ~HasEntryAt(remoteHistory, clock)

\* The local half of C11: the fallback has written the new ratings and the
\* new entry to the local files.
LocalFallbackWritten(s) ==
    /\ localRatings = File(ratings_dict(ratings[s]))
    /\ Exists(localHistory)
    /\ IsOwnEntry(s, localHistory[1][Len(localHistory[1])])

\* C11: when a remote step of save_ratings fails, the local files get the
\* new ratings and the new entry, and the update is what the next
\* load_ratings and load_history return (read with the remote store
\* answering, as the next run reads them).
C11_UpdateReadableAfterFallback ==
    \A s \in AllSessions :
        RemoteWriteFailed(s) =>
            /\ LocalFallbackWritten(s)
            /\ load_ratings(TRUE, TRUE, remoteRatings, localRatings)
                   = ratings_dict(ratings[s])
            /\ \E i \in 1..Len(load_history(TRUE, TRUE, remoteHistory,
                                            localHistory)) :
                  IsOwnEntry(s, load_history(TRUE, TRUE, remoteHistory,
                                             localHistory)[i])

\* C12: when neither the remote history nor the local history got the
\* entry of an accepted operation (the remote write failed or was not tried,
\* and the local fallback write failed), the run ends with the exception
\* shown, not with the success message, and the session's store keeps the
\* ratings the operation computed.
C12_WriteFailureSurfaced ==
    \A s \in AllSessions :
        (Ended(s) /\ ~HasEntryAt(remoteHistory, clock)
                  /\ ~HasEntryAt(localHistory, clock)) =>
            /\ message[s] = "exception"
            /\ ratings[s] # op[s].pre.ratings
            /\ op[s].kind = "add" =>
                  /\ op[s].name \in DOMAIN ratings[s]
                  /\ op[s].name \notin DOMAIN op[s].pre.ratings
            /\ op[s].kind = "match" =>
                  \A n \in Participants(s) :
                      ratings[s][n].sigma < op[s].pre.ratings[n].sigma

C12_Witness ==
    \E s \in AllSessions :
        /\ Ended(s)
        /\ op[s].kind = "match"
        /\ github_repo[s]
        /\ Exists(remoteHistory)
        /\ ~HasEntryAt(remoteHistory, clock)
        /\ localRatings = File(ratings_dict(ratings[s]))
        /\ ~HasEntryAt(localHistory, clock)
        /\ message[s] = "exception"

\* C14: a history write is a rewrite of the whole file from a list the
\* writing session read at an earlier step of the same save_ratings call:
\* the local write stores that list plus the new entry whatever the file
\* holds by then, so an entry another session wrote in between is dropped;
\* the remote update stores the list it read plus the new entry.
C14_HistoryRewrittenFromEarlierRead ==
    [][\A s \in AllSessions :
          /\ (pc[s] = "local_history" /\ pc'[s] = "reload") =>
                localHistory' =
                    File(Append(loaded[s], history_entry(clock, ratings[s])))
          /\ (pc[s] = "history_update" /\ pc'[s] = "reload") =>
                remoteHistory' =
                    File(Append(contents[s][1],
                                history_entry(clock, ratings[s])))]_vars

\* Two sessions without a repository object each added a player, both
\* were told it was saved, and the local log holds one entry: the append of
\* "Zed" is gone.
C14_Witness ==
    /\ \A s \in AllSessions :
          /\ Committed(s)
          /\ op[s].kind = "add"
          /\ ~github_repo[s]
          /\ op[s].pre.localHistory = Absent
    /\ op["s1"].name = "Zed"
    /\ op["s2"].name = " "
    /\ Exists(localHistory)
    /\ Len(localHistory[1]) = 1
    /\ " " \in DOMAIN localHistory[1][1].ratings
    /\ "Zed" \notin DOMAIN localHistory[1][1].ratings

\* C15: save_ratings is on the create path of a remote file (about to call
\* create_file for it) only when the repository does not hold that file.
C15_CreateOnlyWhenAbsent ==
    \A s \in AllSessions :
        /\ pc[s] = "ratings_create" => ~Exists(remoteRatings)
        /\ pc[s] = "history_create" => ~Exists(remoteHistory)

\* C16: in the table get_ratings_df returns for a session's store, a
\* player with the higher conservative score mu - 3*sigma is listed above
\* a player with the lower one.
C16_RankedByConservativeScore ==
    \A s \in MainSessions :
        rankings_df # <<>> =>
            \A i \in DOMAIN rankings_df, j \in DOMAIN rankings_df :
                conservative_rating(ratings[s][rankings_df[i].Player])
                    > conservative_rating(ratings[s][rankings_df[j].Player])
                  => i < j

\* C17: every ratings write of save_ratings that goes through, remote
\* (update or create) or local, leaves in that backend exactly the mapping
\* of the saving session's store: its names and its ratings, whatever the
\* file held before.
C17_WholeMapPersisted ==
    [][\A s \in AllSessions :
          /\ (pc[s] \in {"ratings_update", "ratings_create"}
                /\ pc'[s] = "history_get") =>
                  remoteRatings' = File(ratings_dict(ratings[s]))
          /\ (pc[s] = "local_ratings" /\ pc'[s] = "local_load") =>
                  localRatings' = File(ratings_dict(ratings[s]))]_vars

\* Session s2 added " " to the repository after s1 had loaded its store;
\* s1 then added "Zed" and its update went through: the repository holds
\* the store of s1, without " ".
C17_Witness ==
    /\ pc["s1"] = "history_get"
    /\ op["s1"].kind = "add"
    /\ op["s1"].name = "Zed"
    /\ " " \in added
    /\ " " \in DOMAIN ratings["s2"]
    /\ Exists(op["s1"].pre.remoteRatings)
    /\ " " \in DOMAIN op["s1"].pre.remoteRatings[1]
    /\ " " \notin DOMAIN ratings["s1"]
    /\ remoteRatings = File(ratings_dict(ratings["s1"]))

\* The snapshot of the last entry of the local history file.
LastLocalSnapshot(f) == f[1][Len(f[1])].ratings

\* C18 as stated: at the step that completes the local fallback of
\* save_ratings, the last entry of the local history file has a snapshot
\* equal to the content of the local ratings file.
C18_LocalPairConsistent ==
    [][\A s \in AllSessions :
          (pc[s] = "local_history" /\ pc'[s] = "reload") =>
              LastLocalSnapshot(localHistory') = localRatings'[1]]_vars

\* C18 amended: the fallback always begins by writing the session's
\* ratings to the local ratings file, and the entry it ends with has that
\* same mapping as its snapshot; the two local files are a consistent pair
\* at that point when the ratings file still holds what this call wrote,
\* that is, when no other session's save has replaced it in between.
C18_LocalPairConsistentUnlessReplaced ==
    [][\A s \in AllSessions :
          /\ (pc[s] = "local_ratings" /\ pc'[s] = "local_load") =>
                 localRatings' = File(ratings_dict(ratings[s]))
          /\ (pc[s] = "local_history" /\ pc'[s] = "reload") =>
                 /\ LastLocalSnapshot(localHistory') =
                        ratings_dict(ratings[s])
                 /\ localRatings = File(ratings_dict(ratings[s])) =>
                        LastLocalSnapshot(localHistory') = localRatings'[1]
          ]_vars

\* The fallback was entered after the ratings write to the repository had
\* gone through and the history write had not; it has completed, and the
\* local ratings file, which held something else before, agrees with the
\* last local history entry.
C18_Witness ==
    \E s \in AllSessions :
        /\ pc[s] = "reload"
        /\ github_repo[s]
        /\ remoteRatings = File(ratings_dict(ratings[s]))
        /\ \/ ~Exists(remoteHistory)
           \/ \A i \in 1..Len(remoteHistory[1]) :
                 remoteHistory[1][i].ratings # ratings_dict(ratings[s])
        /\ Exists(op[s].pre.localRatings)
        /\ op[s].pre.localRatings # localRatings
        /\ localRatings = File(ratings_dict(ratings[s]))
        /\ Exists(localHistory)
        /\ LastLocalSnapshot(localHistory) = localRatings[1]

=============================================================================
